---- MODULE Spec2Model ----
(***************************************************************************)
(* The transcoding loop of simple_5_transcode_opaque_async_vppresize_3dlut *)
(* (main, lines 362-756): the task pool, the four feeding/draining loops   *)
(* and the final task flush, driven against a decode -> VPP -> encode      *)
(* accelerator whose calls return a status and, on success, a sync point.  *)
(***************************************************************************)
EXTENDS Integers, Sequences, FiniteSets

(* ---------------------------------------------------------------- bounds *)
\* Largest number of frames held by the source file.
MaxFrames == 3
\* Largest task pool size (AsyncDepth) the model is run with.
MaxAsyncDepth == 2
\* Frames a stage may keep inside itself before it has to return one.
MaxLag == 1
\* Frames the decoder's input bit stream buffer (mfxBS) can hold.
BsCap == 2
\* Surfaces in the VPP->encode pool, and at least as many in the decode->VPP pool.
NSurf == 1
\* Frames a look-ahead encoder takes in before it returns its first output.
EncLookahead == 2

(* ------------------------------------------------------- mfxStatus codes *)
MFX_ERR_NONE == 0
MFX_ERR_MEMORY_ALLOC == -4
MFX_ERR_NOT_ENOUGH_BUFFER == -5
MFX_ERR_NOT_FOUND == -9
MFX_ERR_MORE_DATA == -10
MFX_ERR_MORE_SURFACE == -11
MFX_ERR_UNDEFINED_BEHAVIOR == -16
MFX_ERR_DEVICE_FAILED == -17
MFX_WRN_IN_EXECUTION == 1
MFX_WRN_DEVICE_BUSY == 2
MFX_WRN_VIDEO_PARAM_CHANGED == 3
\* A null sync point.
NULL == 0

Min(a, b) == IF a < b THEN a ELSE b

VARIABLES
    pc,             \* position of main: head, read, decode, vpp, enc, sync, write, after, flush, done, ret
    stage,          \* which of the five loops (Stage 1 .. Stage 5) main is in
    sts,            \* mfxStatus sts
    ret,            \* value returned by main, once pc is done or ret
    taskPoolSize,   \* mfxEncParams.AsyncDepth
    pTasks,         \* task pool: slot -> [syncp, bs]; bs is the output the slot's bit stream holds
    nFirstSyncTask,
    nTaskIdx,
    nFrame,
    nIndex,
    nIndex2,
    syncpD,
    syncpV,
    locked1,        \* Data.Locked of pSurfaces (decode -> VPP pool)
    locked2,        \* Data.Locked of pSurfaces2 (VPP -> encode pool)
    nSurfNumDecVPP, \* surfaces in the decode -> VPP pool
    nTotal,         \* frames in the source file
    srcLeft,        \* frames of the file not read yet
    bsData,         \* frames in mfxBS, read and not yet taken by the decoder
    decBuf,         \* frames inside the decoder
    vppBuf,         \* frames inside VPP
    encBuf,         \* frames inside the encoder
    nClaimed,       \* encode operations accepted so far; the k-th one carries output k
    sink,           \* outputs written to fSink, in order
    outstanding,    \* sync points of accepted encode operations not recycled yet
    hist            \* what has happened so far (see Init)

vars == <<pc, stage, sts, ret, taskPoolSize, pTasks, nFirstSyncTask, nTaskIdx, nFrame,
          nIndex, nIndex2, syncpD, syncpV, locked1, locked2, nSurfNumDecVPP, nTotal,
          srcLeft, bsData,
          decBuf, vppBuf, encBuf, nClaimed, sink, outstanding, hist>>

driver == <<nFirstSyncTask, nTaskIdx, nFrame, pTasks, sink, outstanding>>
accel == <<srcLeft, bsData, decBuf, vppBuf, encBuf, nClaimed>>
surf == <<nIndex, nIndex2, syncpD, syncpV, locked1, locked2>>
fixed == <<taskPoolSize, nSurfNumDecVPP, nTotal>>

Slots == 0 .. (taskPoolSize - 1)
Pool == 0 .. (NSurf - 1)
PoolDec == 0 .. (nSurfNumDecVPP - 1)
FreeTask == [syncp |-> NULL, bs |-> 0]

(* ------------------------------------------------ helpers (common_utils) *)
\* MSDK_CHECK_RESULT(P, X, ERR): return ERR when X > P.
CheckResult(P, X) == X > P
\* MSDK_BREAK_ON_ERROR(P): break when P is not MFX_ERR_NONE.
BreakOnError(P) == P # MFX_ERR_NONE
\* MSDK_IGNORE_MFX_STS(P, X): P becomes MFX_ERR_NONE when it equals X.
IgnoreSts(P, X) == IF P = X THEN MFX_ERR_NONE ELSE P

\* GetFreeTaskIndex: the lowest slot whose sync point is not set.
GetFreeTaskIndex(tasks, n) ==
    LET free == {i \in 0 .. (n - 1) : tasks[i].syncp = NULL}
    IN IF free = {} THEN MFX_ERR_NOT_FOUND
       ELSE CHOOSE i \in free : \A j \in free : i <= j

\* GetFreeSurfaceIndex: the lowest surface whose Data.Locked is 0.
GetFreeSurfaceIndex(locked, n) ==
    LET free == {i \in 0 .. (n - 1) : ~locked[i]}
    IN IF free = {} THEN MFX_ERR_NOT_FOUND
       ELSE CHOOSE i \in free : \A j \in free : i <= j

\* ReadBitStreamData: fill mfxBS from the file; MFX_ERR_MORE_DATA when nothing was read.
ReadBitStreamData(bs, left) ==
    LET n == Min(BsCap - bs, left)
    IN [sts |-> IF n = 0 THEN MFX_ERR_MORE_DATA ELSE MFX_ERR_NONE,
        bs |-> bs + n, left |-> left - n]

(* ------------------------------------------------------------ accelerator *)
When(c, S) == IF c THEN S ELSE {}

\* What one call may answer: the status, the sync point written through syncp (NULL
\* when no operation was accepted), the stage's input left and its buffering after it.
Answer(s, sp, a, b) == [sts |-> s, syncp |-> sp, in |-> a, buf |-> b]

\* Statuses of an accepted operation: MFX_ERR_NONE, or a warning with output.
Accepted(E) ==
    When("Ready" \in E.out, {MFX_ERR_NONE})
    \cup When("Warning" \in E.out, {MFX_WRN_VIDEO_PARAM_CHANGED})

\* Answers that leave the stage as it was: busy, one more surface wanted, failure.
Rejected(E, fatal, a, b) ==
    When("Busy" \in E.out, {Answer(MFX_WRN_DEVICE_BUSY, NULL, a, b)})
    \cup When("MoreSurface" \in E.out, {Answer(MFX_ERR_MORE_SURFACE, NULL, a, b)})
    \cup When("Fatal" \in E.out, {Answer(f, NULL, a, b) : f \in fatal})

\* DecodeFrameAsync(&mfxBS or NULL, work surface, &pmfxOutSurface, &syncpD).
\* With a bit stream: takes one frame and returns one, or takes all that is there
\* and asks for more. Without: returns a buffered frame, or reports there is none.
DecodeFrameAsync(E, withBs) ==
    Rejected(E, {MFX_ERR_DEVICE_FAILED}, bsData, decBuf)
    \cup When(withBs /\ bsData > 0,
              {Answer(s, 1, bsData - 1, decBuf) : s \in Accepted(E)})
    \cup When(~withBs /\ decBuf > 0,
              {Answer(s, 1, bsData, decBuf - 1) : s \in Accepted(E)})
    \cup When(withBs /\ decBuf + bsData <= E.lag /\ "MoreData" \in E.out,
              {Answer(MFX_ERR_MORE_DATA, NULL, 0, decBuf + bsData)})
    \cup When(~withBs /\ decBuf = 0 /\ "MoreData" \in E.out,
              {Answer(MFX_ERR_MORE_DATA, NULL, bsData, decBuf)})

\* RunFrameVPPAsync(pmfxOutSurface or NULL, pSurfaces2[nIndex2], NULL, &syncpV).
RunFrameVPPAsync(E, withIn) ==
    Rejected(E, {MFX_ERR_DEVICE_FAILED}, 0, vppBuf)
    \cup When(withIn, {Answer(s, 1, 0, vppBuf) : s \in Accepted(E)})
    \cup When(~withIn /\ vppBuf > 0, {Answer(s, 1, 0, vppBuf - 1) : s \in Accepted(E)})
    \cup When(withIn /\ vppBuf < E.lag /\ "MoreData" \in E.out,
              {Answer(MFX_ERR_MORE_DATA, NULL, 0, vppBuf + 1)})
    \cup When(~withIn /\ vppBuf = 0 /\ "MoreData" \in E.out,
              {Answer(MFX_ERR_MORE_DATA, NULL, 0, vppBuf)})

\* EncodeFrameAsync(NULL, pSurfaces2[nIndex2] or NULL, &task.mfxBS, &task.syncp):
\* the k-th accepted operation gets sync point k and produces output k. The encoder
\* returns no output before it holds E.encHold frames, and holds at most E.encLag.
EncodeFrameAsync(E, withIn) ==
    (Rejected(E, {MFX_ERR_DEVICE_FAILED, MFX_ERR_NOT_ENOUGH_BUFFER}, 0, encBuf)
        \ {Answer(MFX_ERR_MORE_SURFACE, NULL, 0, encBuf)})
    \cup When(withIn /\ encBuf >= E.encHold,
              {Answer(s, nClaimed + 1, 0, encBuf) : s \in Accepted(E)})
    \cup When(~withIn /\ encBuf > 0,
              {Answer(s, nClaimed + 1, 0, encBuf - 1) : s \in Accepted(E)})
    \cup When(withIn /\ encBuf < E.encLag /\ "MoreData" \in E.out,
              {Answer(MFX_ERR_MORE_DATA, NULL, 0, encBuf + 1)})
    \cup When(~withIn /\ encBuf = 0 /\ "MoreData" \in E.out,
              {Answer(MFX_ERR_MORE_DATA, NULL, 0, encBuf)})

\* SyncOperation(syncp, 60000): MFX_ERR_NONE when the operation is done,
\* MFX_WRN_IN_EXECUTION when the wait expired first, an error when it failed.
SyncOperation(E) == E.wait

\* Statuses that are failures of a stage (neither a warning nor a flow signal).
IsFatal(s) == s < MFX_ERR_NONE /\ s \notin {MFX_ERR_MORE_DATA, MFX_ERR_MORE_SURFACE}

(* ------------------------------------------------------------ environments *)
\* Every outcome the accelerator and the sink can produce.
EnvAny == [out |-> {"Ready", "Warning", "Busy", "MoreData", "MoreSurface", "Fatal"},
           lag |-> MaxLag,
           encLag |-> MaxLag,
           encHold |-> 0,
           count |-> FALSE,
           wait |-> {MFX_ERR_NONE, MFX_WRN_IN_EXECUTION, MFX_ERR_DEVICE_FAILED},
           write |-> {TRUE, FALSE},
           lock |-> {TRUE, FALSE}]

\* A well-behaved accelerator and sink: every call is accepted, is busy, or asks for
\* more input; every wait and every write succeeds; no surface stays locked.
EnvFair == [out |-> {"Ready", "Busy", "MoreData"},
            lag |-> MaxLag,
            encLag |-> MaxLag,
            encHold |-> 0,
            count |-> FALSE,
            wait |-> {MFX_ERR_NONE},
            write |-> {TRUE},
            lock |-> {FALSE}]

\* The same, answering other than busy.
EnvProgress == [EnvFair EXCEPT !.out = {"Ready", "MoreData"}]

\* Every call is accepted at once; a stage asks for more input only when it has none.
EnvReady == [EnvFair EXCEPT !.out = {"Ready", "MoreData"}, !.lag = 0, !.encLag = 0]

\* The same, but one call in the whole run may be answered busy; calls are counted.
EnvBusyOnce ==
    [EnvReady EXCEPT !.out = {"Ready", "MoreData"}
                              \cup When(hist.nBusy = 0, {"Busy"}),
                     !.count = TRUE]

\* A well-behaved accelerator that keeps surfaces locked for a while.
EnvLocking == [EnvFair EXCEPT !.lock = {TRUE, FALSE}]

\* Every call is accepted at once, except that the encoder looks ahead: it takes
\* in EncLookahead frames before it returns its first output.
EnvLookahead == [EnvReady EXCEPT !.encLag = EncLookahead, !.encHold = EncLookahead]

(* ------------------------------------------------------------- call record *)
\* One call to a stage as the driver made it: the stage called, the loop it was
\* called from, the status it returned, the surface index and the task slot passed,
\* the input the decoder's bit stream held, the encode operations accepted before
\* it, whether ReadBitStreamData has refilled the bit stream since, and a mark
\* that alternates from one call to the next.
Call(op, s, st, sf, sl, in, cl) ==
    [op |-> op, stage |-> s, sts |-> st, surf |-> sf, slot |-> sl, in |-> in,
     claimed |-> cl, fed |-> FALSE, tick |-> FALSE]

NoCall == Call("none", 0, MFX_ERR_NONE, 0, 0, 0, 0)

\* The history after call c; calls and busy answers are counted where E.count.
Trace(h, E, c) ==
    [h EXCEPT !.last = [c EXCEPT !.tick = ~h.last.tick],
              !.calls = IF E.count THEN @ + 1 ELSE @,
              !.nBusy = IF E.count /\ c.sts = MFX_WRN_DEVICE_BUSY THEN @ + 1 ELSE @]

(* ------------------------------------------------------------------- Init *)
\* The state before Stage 1, with n surfaces in the decode -> VPP pool.
InitWith(n) ==
    /\ taskPoolSize \in 1 .. MaxAsyncDepth
    /\ nSurfNumDecVPP = n
    /\ nTotal \in 1 .. MaxFrames
    /\ pc = "head"
    /\ stage = 1
    /\ sts = MFX_ERR_NONE
    /\ ret = MFX_ERR_NONE
    /\ pTasks = [i \in Slots |-> FreeTask]
    /\ nFirstSyncTask = 0
    /\ nTaskIdx = 0
    /\ nFrame = 0
    /\ nIndex = 0
    /\ nIndex2 = 0
    /\ syncpD = NULL
    /\ syncpV = NULL
    /\ locked1 = [i \in PoolDec |-> FALSE]
    /\ locked2 = [i \in Pool |-> FALSE]
    \* line 120: the first chunk of the file is read before the decoder is initialised
    /\ bsData = Min(BsCap, nTotal)
    /\ srcLeft = nTotal - Min(BsCap, nTotal)
    /\ decBuf = 0
    /\ vppBuf = 0
    /\ encBuf = 0
    /\ nClaimed = 0
    /\ sink = <<>>
    /\ outstanding = {}
    /\ hist = [timedOut |-> FALSE,      \* a SyncOperation wait expired
               fatalSeen |-> FALSE,     \* a stage answered with a failure status
               writeFailed |-> FALSE,   \* WriteBitStreamFrame failed
               notFound |-> FALSE,      \* a surface pool had no free surface
               observed |-> {},         \* stages whose operations SyncOperation saw complete
               inputObserved |-> TRUE,  \* every input submitted so far came from an observed operation
               sinkAtFatal |-> <<>>,    \* the sink when a stage or a wait first failed
               last |-> NoCall,         \* the last call to a stage
               calls |-> 0,             \* calls to the stages, where they are counted
               nBusy |-> 0]             \*   and how many of them were answered busy

Init == InitWith(NSurf)

(* ---------------------------------------------------------- driver pieces *)
\* Variant: the condition of the Stage 1 loop copied to the other loops.
LoopCond_Stage1Everywhere(s, st) ==
    MFX_ERR_NONE <= st \/ MFX_ERR_MORE_DATA = st \/ MFX_ERR_MORE_SURFACE = st

\* The conditions of the four while loops (lines 395, 500, 596, 673).
LoopCond(s, st) ==
    CASE s = 1 -> MFX_ERR_NONE <= st \/ MFX_ERR_MORE_DATA = st \/ MFX_ERR_MORE_SURFACE = st
      [] s = 2 -> MFX_ERR_NONE <= st \/ MFX_ERR_MORE_SURFACE = st
      [] s = 3 -> MFX_ERR_NONE <= st \/ MFX_ERR_MORE_DATA = st \/ MFX_ERR_MORE_SURFACE = st
      [] OTHER -> MFX_ERR_NONE <= st

\* Variant: the body of the Stage 1 loop in every loop.
FirstStep_Stage1Body(s, st) == IF MFX_ERR_MORE_DATA = st THEN "read" ELSE "decode"

\* What a loop does first when a task is free: Stage 1 reads after
\* MFX_ERR_MORE_DATA and decodes otherwise (lines 419-430), Stage 2 decodes (528),
\* Stage 3 calls VPP (622), Stage 4 calls the encoder (696).
FirstStep(s, st) ==
    CASE s = 4 -> "enc"
      [] s = 3 -> "vpp"
      [] s = 1 /\ MFX_ERR_MORE_DATA = st -> "read"
      [] OTHER -> "decode"

\* Variant: the oldest task is synced in every iteration.
NoFreeTask_Always(t) == TRUE

\* Variant: the oldest task is synced whenever slot 0 is not the free one.
NoFreeTask_SlotZeroTaken(t) == t # 0

\* if (MFX_ERR_NOT_FOUND == nTaskIdx): no free task, the oldest one is synced.
NoFreeTask(t) == MFX_ERR_NOT_FOUND = t

\* Variant: a call is repeated whenever it returned no sync point.
RepeatCall_NoOutput(st, sp) == sp = NULL /\ st # MFX_ERR_MORE_DATA

\* Variant: a call is never repeated.
RepeatCall_Never(st, sp) == FALSE

\* The call is repeated: a warning and no sync point (lines 446, 471).
RepeatCall(st, sp) == MFX_ERR_NONE < st /\ sp = NULL

\* Variant: any warning counts as success, with or without a sync point.
IgnoreWarning_AnyWarning(st, sp) == IF MFX_ERR_NONE < st THEN MFX_ERR_NONE ELSE st

\* A warning with output counts as success (lines 434-435, 449-450, 474-475).
IgnoreWarning(st, sp) == IF MFX_ERR_NONE < st /\ sp # NULL THEN MFX_ERR_NONE ELSE st

\* Variant: a work surface is looked for before every DecodeFrameAsync call.
AcquireSurface_Always(s, st) == TRUE

\* Whether a free work surface is looked for before DecodeFrameAsync: in Stage 1
\* only after MFX_ERR_MORE_SURFACE or MFX_ERR_NONE (line 424), in Stage 2 always
\* (line 524).
AcquireSurface(s, st) == s = 2 \/ MFX_ERR_MORE_SURFACE = st \/ MFX_ERR_NONE = st

\* Variant: the result of GetFreeSurfaceIndex is not checked.
SurfaceMissing_Never(idx) == FALSE

\* MSDK_CHECK_ERROR(MFX_ERR_NOT_FOUND, idx, MFX_ERR_MEMORY_ALLOC) (lines 426, 439).
SurfaceMissing(idx) == MFX_ERR_NOT_FOUND = idx

\* The status main returns when a surface pool has no free surface.
SurfaceMissingStatus == MFX_ERR_MEMORY_ALLOC

\* Variant: the encoder's MFX_ERR_MORE_DATA is no error in Stage 1 only.
EncodeMoreData_Stage1Only(s, st) ==
    IF s = 1 /\ MFX_ERR_MORE_DATA = st THEN MFX_ERR_NONE ELSE st

\* Variant: the encoder's MFX_ERR_MORE_DATA is left in sts.
EncodeMoreData_Kept(s, st) == st

\* Stages 1-3: the encoder wants more input, which is no error (lines 484-488,
\* 580-584, 658-662); Stage 4 has no such test.
EncodeMoreData(s, st) ==
    IF s \in {1, 2, 3} /\ MFX_ERR_MORE_DATA = st THEN MFX_ERR_NONE ELSE st

\* Variant: the encoder is given the oldest slot instead of the free one.
EncodeSlot_Oldest == nFirstSyncTask

\* The slot EncodeFrameAsync writes its bit stream and sync point to (line 469).
EncodeSlot == nTaskIdx

\* The slot that is synced, written and recycled (lines 399-408).
SyncSlot == nFirstSyncTask

\* Lines 405-408: the slot is free again, and the next one is the oldest.
Recycled(tasks, i) == [tasks EXCEPT ![i] = FreeTask]

\* Variant: nFirstSyncTask goes back to slot 0.
NextSyncTask_BackToZero(i) == 0

\* Variant: nFirstSyncTask is not advanced.
NextSyncTask_Stays(i) == i

\* Line 408: the next slot, circularly, is the oldest one now.
NextSyncTask(i) == (i + 1) % taskPoolSize

\* Variant: MFX_ERR_MORE_SURFACE is ignored after a loop as well.
AfterLoopStatus_IgnoreSurface(st) ==
    IgnoreSts(IgnoreSts(st, MFX_ERR_MORE_DATA), MFX_ERR_MORE_SURFACE)

\* Variant: every status is ignored after a loop.
AfterLoopStatus_IgnoreAll(st) == MFX_ERR_NONE

\* Variant: MFX_ERR_MORE_DATA is not ignored after a loop.
AfterLoopStatus_Keep(st) == st

\* The status with which a loop is left for the checks after it (lines 494, 590, 667, 711).
AfterLoopStatus(st) == IgnoreSts(st, MFX_ERR_MORE_DATA)

\* Where a failed WriteBitStreamFrame leads: out of the loop (MSDK_BREAK_ON_ERROR);
\* after Stage 5 nothing checks sts and main returns 0 (lines 722, 736-756).
WriteFailedPc(s) == IF s = 5 THEN "done" ELSE "after"

\* The value main returns after Stage 5 (line 756).
FinalStatus(st) == MFX_ERR_NONE

\* Records a failure status of a stage or of a wait, and the sink at the first one.
Note(h, st) ==
    IF IsFatal(st) /\ ~h.fatalSeen
    THEN [h EXCEPT !.fatalSeen = TRUE, !.sinkAtFatal = sink] ELSE h

(* ---------------------------------------------------------------- actions *)
\* Top of a while loop of Stages 1-4: the loop condition, then GetFreeTaskIndex
\* and the branch on it (lines 395-397, 415-422; 500-502; 596-598, 617-618; 673-675).
LoopHead ==
    /\ pc = "head"
    /\ UNCHANGED <<stage, sts, nFirstSyncTask, nFrame, pTasks, sink, outstanding,
                   accel, fixed, nIndex, syncpD, syncpV, locked1, locked2>>
    /\ IF ~LoopCond(stage, sts)
       THEN pc' = "after" /\ UNCHANGED <<ret, nTaskIdx, nIndex2, hist>>
       ELSE LET t == GetFreeTaskIndex(pTasks, taskPoolSize)
                i2 == GetFreeSurfaceIndex(locked2, NSurf)
            IN /\ nTaskIdx' = t
               /\ IF NoFreeTask(t)
                  THEN pc' = "sync" /\ UNCHANGED <<ret, nIndex2, hist>>
                  ELSE IF stage = 3
                  THEN /\ nIndex2' = i2
                       /\ IF SurfaceMissing(i2)
                          THEN /\ pc' = "ret" /\ ret' = SurfaceMissingStatus
                               /\ hist' = [hist EXCEPT !.notFound = TRUE]
                          ELSE pc' = FirstStep(stage, sts) /\ UNCHANGED <<ret, hist>>
                  ELSE /\ pc' = FirstStep(stage, sts)
                       /\ UNCHANGED <<ret, nIndex2, hist>>

\* session.SyncOperation(pTasks[nFirstSyncTask].syncp, 60000) and the check of its
\* result (lines 399-400, 504-505, 600-601, 677-678, 718-719).
Sync(E) ==
    /\ pc = "sync"
    /\ \E w \in SyncOperation(E) :
         /\ sts' = w
         /\ hist' = [Note(hist, w) EXCEPT
                        !.timedOut = @ \/ w = MFX_WRN_IN_EXECUTION,
                        !.observed = IF w = MFX_ERR_NONE THEN @ \cup {"enc"} ELSE @]
         /\ IF CheckResult(w, MFX_ERR_NONE)
            THEN pc' = "ret" /\ ret' = w
            ELSE pc' = "write" /\ UNCHANGED ret
    /\ UNCHANGED <<stage, driver, accel, surf, fixed>>

\* WriteBitStreamFrame of the oldest task, then the slot is recycled and counted
\* (lines 402-410, 507-515, 603-611, 680-688, 721-729).
Write(E) ==
    /\ pc = "write"
    /\ \E ok \in E.write :
         IF ok
         THEN /\ sts' = MFX_ERR_NONE
              /\ sink' = Append(sink, pTasks[SyncSlot].bs)
              /\ outstanding' = outstanding \ {pTasks[SyncSlot].syncp}
              /\ pTasks' = Recycled(pTasks, SyncSlot)
              /\ nFirstSyncTask' = NextSyncTask(nFirstSyncTask)
              /\ nFrame' = nFrame + 1
              /\ pc' = IF stage = 5 THEN "flush" ELSE "head"
              /\ UNCHANGED <<ret, hist>>
         ELSE /\ sts' = MFX_ERR_UNDEFINED_BEHAVIOR
              /\ hist' = [hist EXCEPT !.writeFailed = TRUE]
              /\ pc' = WriteFailedPc(stage)
              /\ ret' = IF WriteFailedPc(stage) = "done"
                        THEN FinalStatus(MFX_ERR_UNDEFINED_BEHAVIOR) ELSE ret
              /\ UNCHANGED <<sink, outstanding, pTasks, nFirstSyncTask, nFrame>>
    /\ UNCHANGED <<stage, nTaskIdx, accel, surf, fixed>>

\* Stage 1, sts is MFX_ERR_MORE_DATA: ReadBitStreamData (lines 419-422).
Read ==
    /\ pc = "read"
    /\ LET r == ReadBitStreamData(bsData, srcLeft)
       IN /\ sts' = r.sts
          /\ bsData' = r.bs
          /\ srcLeft' = r.left
          /\ pc' = IF BreakOnError(r.sts) THEN "after" ELSE "decode"
          /\ hist' = IF BreakOnError(r.sts) THEN hist
                     ELSE [hist EXCEPT !.last.fed = TRUE]
    /\ UNCHANGED <<stage, ret, driver, decBuf, vppBuf, encBuf, nClaimed, surf, fixed>>

\* Stages 1 and 2: a free work surface, DecodeFrameAsync, and on success a free
\* surface for VPP (lines 416-439, 521-537).
Decode(E) ==
    /\ pc = "decode"
    /\ LET acquire == AcquireSurface(stage, sts)
           i1 == IF acquire THEN GetFreeSurfaceIndex(locked1, nSurfNumDecVPP) ELSE nIndex
           i2 == GetFreeSurfaceIndex(locked2, NSurf)
       IN /\ nIndex' = i1
          /\ IF SurfaceMissing(i1)
             THEN /\ pc' = "ret" /\ ret' = SurfaceMissingStatus
                  /\ hist' = [hist EXCEPT !.notFound = TRUE]
                  /\ UNCHANGED <<sts, syncpD, bsData, decBuf, locked1, nIndex2>>
             ELSE \E r \in DecodeFrameAsync(E, stage = 1), lk \in E.lock :
                    LET st == IgnoreWarning(r.sts, r.syncp)
                        taken == r.sts \in {MFX_ERR_NONE, MFX_WRN_VIDEO_PARAM_CHANGED,
                                            MFX_ERR_MORE_SURFACE}
                        h == Trace(hist, E, Call("dec", stage, r.sts, i1, nTaskIdx,
                                                 bsData, nClaimed))
                    IN /\ syncpD' = r.syncp
                       /\ bsData' = r.in
                       /\ decBuf' = r.buf
                       /\ locked1' = IF lk /\ taken THEN [locked1 EXCEPT ![i1] = TRUE]
                                     ELSE locked1
                       /\ IF MFX_ERR_NONE = st
                          THEN /\ nIndex2' = i2
                               /\ IF SurfaceMissing(i2)
                                  THEN /\ pc' = "ret" /\ ret' = SurfaceMissingStatus
                                       /\ sts' = st
                                       /\ hist' = [h EXCEPT !.notFound = TRUE]
                                  ELSE /\ pc' = "vpp" /\ sts' = st
                                       /\ hist' = h
                                       /\ UNCHANGED ret
                          ELSE /\ pc' = "head" /\ sts' = st
                               /\ hist' = Note(h, st)
                               /\ UNCHANGED <<ret, nIndex2>>
    /\ UNCHANGED <<stage, driver, srcLeft, vppBuf, encBuf, nClaimed, syncpV, locked2, fixed>>

\* Stages 1-3: one RunFrameVPPAsync call of the retry loop and what follows it
\* (lines 441-464, 539-561, 620-639).
Vpp(E) ==
    /\ pc = "vpp"
    /\ \E r \in RunFrameVPPAsync(E, stage \in {1, 2}), lk \in E.lock :
         LET st == IgnoreWarning(r.sts, r.syncp)
         IN /\ syncpV' = r.syncp
            /\ vppBuf' = r.buf
            /\ locked2' = IF lk /\ r.syncp # NULL THEN [locked2 EXCEPT ![nIndex2] = TRUE]
                          ELSE locked2
            /\ sts' = st
            /\ pc' = IF RepeatCall(r.sts, r.syncp) THEN "vpp"
                     ELSE IF stage \in {1, 2} /\ MFX_ERR_MORE_DATA = st THEN "head"
                     ELSE IF MFX_ERR_MORE_SURFACE = st THEN "after"
                     ELSE IF BreakOnError(st) THEN "after"
                     ELSE "enc"
            /\ hist' = [Note(Trace(hist, E, Call("vpp", stage, r.sts, nIndex2, nTaskIdx,
                                                 0, nClaimed)), st) EXCEPT
                           !.inputObserved = @ /\ (stage = 3 \/ "dec" \in hist.observed)]
    /\ UNCHANGED <<stage, ret, driver, srcLeft, bsData, decBuf, encBuf, nClaimed,
                   nIndex, nIndex2, syncpD, locked1, fixed>>

\* Stages 1-4: one EncodeFrameAsync call of the retry loop and what follows it
\* (lines 466-488, 563-584, 641-662, 694-706).
Encode(E) ==
    /\ pc = "enc"
    /\ \E r \in EncodeFrameAsync(E, stage \in {1, 2, 3}) :
         LET st == IgnoreWarning(r.sts, r.syncp)
         IN /\ pTasks' = [pTasks EXCEPT ![EncodeSlot] =
                             IF r.syncp # NULL THEN [syncp |-> r.syncp, bs |-> r.syncp]
                             ELSE [@ EXCEPT !.syncp = NULL]]
            /\ outstanding' = IF r.syncp # NULL THEN outstanding \cup {r.syncp}
                              ELSE outstanding
            /\ nClaimed' = IF r.syncp # NULL THEN nClaimed + 1 ELSE nClaimed
            /\ encBuf' = r.buf
            /\ sts' = IF RepeatCall(r.sts, r.syncp) THEN st ELSE EncodeMoreData(stage, st)
            /\ pc' = IF RepeatCall(r.sts, r.syncp) THEN "enc" ELSE "head"
            /\ hist' = [Note(Trace(hist, E, Call("enc", stage, r.sts, nIndex2, EncodeSlot,
                                                 0, nClaimed)), st) EXCEPT
                           !.inputObserved = @ /\ (stage = 4 \/ "vpp" \in hist.observed)]
    /\ UNCHANGED <<stage, ret, nFirstSyncTask, nTaskIdx, nFrame, sink, srcLeft, bsData,
                   decBuf, vppBuf, surf, fixed>>

\* After a loop of Stages 1-4: MFX_ERR_MORE_DATA is the expected way out, any other
\* error is returned (lines 493-495, 589-591, 666-668, 710-712).
After ==
    /\ pc = "after"
    /\ LET st == AfterLoopStatus(sts)
       IN /\ sts' = st
          /\ IF CheckResult(st, MFX_ERR_NONE)
             THEN pc' = "ret" /\ ret' = st /\ UNCHANGED stage
             ELSE /\ stage' = stage + 1
                  /\ pc' = IF stage = 4 THEN "flush" ELSE "head"
                  /\ UNCHANGED ret
    /\ UNCHANGED <<driver, accel, surf, fixed, hist>>

\* The condition of the Stage 5 loop, and the end of main (lines 717, 736-756).
Flush ==
    /\ pc = "flush"
    /\ IF pTasks[nFirstSyncTask].syncp # NULL
       THEN pc' = "sync" /\ UNCHANGED ret
       ELSE pc' = "done" /\ ret' = FinalStatus(sts)
    /\ UNCHANGED <<stage, sts, driver, accel, surf, fixed, hist>>

\* The accelerator is done with a surface and unlocks it.
AccelUnlock ==
    /\ pc \notin {"done", "ret"}
    /\ \/ \E i \in PoolDec :
            locked1[i] /\ locked1' = [locked1 EXCEPT ![i] = FALSE] /\ UNCHANGED locked2
       \/ \E i \in Pool :
            locked2[i] /\ locked2' = [locked2 EXCEPT ![i] = FALSE] /\ UNCHANGED locked1
    /\ UNCHANGED <<pc, stage, sts, ret, driver, accel, nIndex, nIndex2, syncpD, syncpV,
                   fixed, hist>>

Next ==
    \/ LoopHead
    \/ Sync(EnvAny)
    \/ Write(EnvAny)
    \/ Read
    \/ Decode(EnvAny)
    \/ Vpp(EnvAny)
    \/ Encode(EnvAny)
    \/ After
    \/ Flush
    \/ AccelUnlock

Spec == Init /\ [][Next]_vars

\* The driver against the well-behaved accelerator. A busy answer is not repeated
\* forever: each stage eventually answers other than busy.
NextFair ==
    \/ LoopHead
    \/ Sync(EnvFair)
    \/ Write(EnvFair)
    \/ Read
    \/ Decode(EnvFair)
    \/ Vpp(EnvFair)
    \/ Encode(EnvFair)
    \/ After
    \/ Flush

DecodeProgress == Decode(EnvProgress)
VppProgress == Vpp(EnvProgress)
EncodeProgress == Encode(EnvProgress)

SpecFair ==
    /\ Init
    /\ [][NextFair]_vars
    /\ WF_vars(NextFair)
    /\ SF_vars(DecodeProgress)
    /\ SF_vars(VppProgress)
    /\ SF_vars(EncodeProgress)

\* The driver against an accelerator that accepts every call at once.
NextReady ==
    \/ LoopHead
    \/ Sync(EnvReady)
    \/ Write(EnvReady)
    \/ Read
    \/ Decode(EnvReady)
    \/ Vpp(EnvReady)
    \/ Encode(EnvReady)
    \/ After
    \/ Flush

SpecReady == Init /\ [][NextReady]_vars

\* The driver against an accelerator that accepts every call at once, except for
\* one call of the run, answered busy once.
NextBusyOnce ==
    \/ LoopHead
    \/ Sync(EnvBusyOnce)
    \/ Write(EnvBusyOnce)
    \/ Read
    \/ Decode(EnvBusyOnce)
    \/ Vpp(EnvBusyOnce)
    \/ Encode(EnvBusyOnce)
    \/ After
    \/ Flush

SpecBusyOnce == Init /\ [][NextBusyOnce]_vars /\ WF_vars(NextBusyOnce)

\* The driver against an accelerator whose encoder looks ahead.
NextLookahead ==
    \/ LoopHead
    \/ Sync(EnvLookahead)
    \/ Write(EnvLookahead)
    \/ Read
    \/ Decode(EnvLookahead)
    \/ Vpp(EnvLookahead)
    \/ Encode(EnvLookahead)
    \/ After
    \/ Flush

SpecLookahead == Init /\ [][NextLookahead]_vars

\* The driver with one surface more in the decode -> VPP pool, against the
\* well-behaved accelerator that keeps surfaces locked and releases them later.
InitTwoPools == InitWith(NSurf + 1)

NextLocking ==
    \/ LoopHead
    \/ Sync(EnvLocking)
    \/ Write(EnvLocking)
    \/ Read
    \/ Decode(EnvLocking)
    \/ Vpp(EnvLocking)
    \/ Encode(EnvLocking)
    \/ After
    \/ Flush
    \/ AccelUnlock

SpecLocking == InitTwoPools /\ [][NextLocking]_vars

TypeOK ==
    /\ pc \in {"head", "read", "decode", "vpp", "enc", "sync", "write", "after",
               "flush", "done", "ret"}
    /\ stage \in 1 .. 5
    /\ nFirstSyncTask \in Slots
    /\ \A i \in Slots : pTasks[i].syncp \in 0 .. nClaimed

(* ----------------------------------------------------------------- claims *)
InClaimOrder(q) == \A i \in DOMAIN q : q[i] = i

\* C1: in every reachable state the outstanding encode operations (sync points
\* handed out and not yet recycled) are at most taskPoolSize, and they are exactly
\* the sync points set in the task pool.
C1_OutstandingBounded ==
    /\ Cardinality(outstanding) <= taskPoolSize
    /\ Cardinality({i \in Slots : pTasks[i].syncp # NULL}) = Cardinality(outstanding)

\* The pool is full again after a slot has been recycled and reused.
C1_PoolFull ==
    /\ taskPoolSize = 2
    /\ Cardinality(outstanding) = 2
    /\ nFrame > 0
    /\ pc = "sync"

\* C2: the outputs are written in the order their tasks were claimed: the i-th
\* output in the sink is that of the i-th accepted encode operation.
C2_FifoOrder == InClaimOrder(sink) /\ Len(sink) <= nClaimed

\* Three outputs went through a pool of two slots, so a slot was reused.
C2_SlotReused == taskPoolSize = 2 /\ Len(sink) = 3 /\ pc = "done"

\* C3: when main ends normally, every frame of the source has been decoded,
\* processed, encoded and written exactly once.
C3_NoFrameLost ==
    pc = "done" => (nClaimed = nTotal /\ Len(sink) = nTotal /\ InClaimOrder(sink))

\* C4 as stated: every input submitted to VPP or to the encoder came from an
\* operation whose completion SyncOperation had reported.
C4_InputObserved == hist.inputObserved

\* C4 amended: VPP is given the decoder's output only after DecodeFrameAsync
\* returned a sync point, the encoder is given VPP's output only after
\* RunFrameVPPAsync returned one, and neither sync point is ever waited on.
C4_InputAccepted ==
    /\ (pc = "vpp" /\ stage \in {1, 2}) => syncpD # NULL
    /\ (pc = "enc" /\ stage \in {1, 2, 3}) => syncpV # NULL
    /\ hist.observed \subseteq {"enc"}

\* The encoder is about to get a surface VPP has just been asked to fill.
C4_Chained == pc = "enc" /\ stage = 1 /\ syncpV # NULL /\ ~hist.inputObserved

\* C5: against the well-behaved accelerator main ends normally.
C5_ReachesDone == <>(pc = "done")

\* main has ended after all five stages, with tasks flushed in Stage 5.
C5_Finished == pc = "done" /\ stage = 5 /\ nFrame = nTotal /\ nTotal = 3

\* C6: once a wait has expired main has returned an error.
C6_TimeoutIsFatal == hist.timedOut => (pc = "ret" /\ ret # MFX_ERR_NONE)

\* C7: after a failed write main does not end normally.
C7_WriteFailureReported ==
    hist.writeFailed => (pc \in {"after", "ret"} /\ (pc = "ret" => ret # MFX_ERR_NONE))

C9_FatalAborts ==
    hist.fatalSeen =>
        /\ pc \in {"head", "after", "ret"}
        /\ pc \in {"head", "after"} => IsFatal(sts)
        /\ pc = "ret" => IsFatal(ret)
        /\ sink = hist.sinkAtFatal
        /\ InClaimOrder(sink)
        /\ Len(sink) <= nClaimed

\* main returned the error with part of the output written and a task outstanding.
C9_PartialOutput ==
    hist.fatalSeen /\ pc = "ret" /\ Len(sink) > 0 /\ outstanding # {}

\* C10: with a pool of one task, three frames and every call accepted at once, main
\* ends normally with outputs 1, 2, 3 written in this order and nFrame = 3.
C10_ThreeFrames ==
    (taskPoolSize = 1 /\ nTotal = 3) =>
        /\ pc # "ret"
        /\ pc = "done" => (sink = <<1, 2, 3>> /\ nFrame = 3 /\ ret = MFX_ERR_NONE)

\* That run has ended.
C10_Ended == taskPoolSize = 1 /\ nTotal = 3 /\ pc = "done"

\* Calls to the stages in the run in which every call is accepted at once: three per
\* frame, one decode call for each time the bit stream runs empty, and one call
\* without input per stage that finds it drained.
ReadyCalls(n) == 3 * n + ((n + BsCap - 1) \div BsCap) + 3

\* The outcome of the run in which every call is accepted at once (hist.nBusy = 0),
\* and the same outcome with one more call when one call was answered busy.
ReadyOutcome ==
    /\ pc # "ret"
    /\ hist.nBusy <= 1
    /\ pc = "done" =>
          /\ ret = MFX_ERR_NONE
          /\ sink = [i \in 1 .. nTotal |-> i]
          /\ nFrame = nTotal
          /\ hist.calls = ReadyCalls(nTotal) + hist.nBusy

\* C11: when one call of the run (a decode, VPP or encode call of any stage) is
\* answered busy once and accepted when repeated, main still ends normally, makes
\* exactly one call more than the run without a busy answer, and writes the same
\* outputs and counts the same frames as that run.
C11_BusyOnceSameResult == []ReadyOutcome /\ <>(pc = "done")

\* A run with one busy answer has ended.
C11_BusyRunEnded == pc = "done" /\ hist.nBusy = 1 /\ nTotal = 3

\* C12: when the encoder asks for more input on its first EncLookahead frames and
\* accepts every call after them, main ends normally with every frame given to the
\* encoder written exactly once, in the order given: the encoder holds none and
\* no output is missing, repeated or out of order.
C12_LookaheadRecovered ==
    /\ pc # "ret"
    /\ encBuf <= EncLookahead
    /\ pc = "done" =>
          /\ encBuf = 0
          /\ nClaimed = nTotal
          /\ sink = [i \in 1 .. nTotal |-> i]

\* Two frames were held by the encoder, one output came in Stage 1 and the other
\* two from the drain of Stage 4.
C12_DrainedAtEnd ==
    /\ pc = "done" /\ nTotal = 3 /\ Len(sink) = 3
    /\ hist.last.op = "enc" /\ hist.last.stage = 4 /\ hist.last.claimed = 3

\* C13: when main has ended normally (the Stage 5 loop is over and 0 is returned),
\* no task of the pool has a sync point set and no encode operation is outstanding.
C13_NoTokenAtDone ==
    pc = "done" => (outstanding = {} /\ \A i \in Slots : pTasks[i].syncp = NULL)

\* C14: in Stages 1-4 main waits on a sync point (and flushes the task) only when
\* every task slot holds one, and it calls a stage only with a free slot in hand;
\* the accelerator releases surfaces meanwhile.
C14_WaitsOnlyWhenFull ==
    /\ (pc \in {"sync", "write"} /\ stage \in 1 .. 4) =>
          \A i \in Slots : pTasks[i].syncp # NULL
    /\ (pc \in {"read", "decode", "vpp", "enc"}) =>
          (nTaskIdx \in Slots /\ pTasks[nTaskIdx].syncp = NULL)

\* The Stage 4 drain waits with both slots of the pool taken, after earlier flushes.
C14_BlockedOnFullPool ==
    /\ pc = "sync" /\ stage = 4 /\ taskPoolSize = 2 /\ nFrame > 0
    /\ \A i \in Slots : pTasks[i].syncp # NULL

\* C15: nFrame is the number of tasks synced, written and recycled, in every state,
\* and when main has ended normally it is the number of accepted encode operations.
C15_FrameCounter ==
    /\ nFrame = Len(sink)
    /\ nFrame = nClaimed - Cardinality(outstanding)
    /\ pc = "done" => nFrame = nClaimed

\* This step makes a call to a stage.
CallStep == hist'.last.tick # hist.last.tick

\* Call b repeats call a: the same stage called from the same loop with the same
\* surface, task slot and input, with no encode operation accepted and no data read
\* in between.
SameCall(a, b) ==
    /\ a.op = b.op /\ a.stage = b.stage /\ a.slot = b.slot /\ a.in = b.in
    /\ a.surf = b.surf /\ a.claimed = b.claimed /\ ~a.fed

\* The same, whatever the work surface of a Stage 2 decode call.
SameCallButDrainSurface(a, b) ==
    SameCall([a EXCEPT !.surf = IF a.op = "dec" /\ a.stage = 2 THEN b.surf ELSE @], b)

\* C17 as stated: a stage whose call returned a failure or MFX_ERR_MORE_SURFACE is
\* not called again, and a call is repeated only after MFX_WRN_DEVICE_BUSY.
C17_RetryOnlyAfterBusy ==
    [][(CallStep /\ hist'.last.op = hist.last.op) =>
          /\ ~IsFatal(hist.last.sts)
          /\ hist.last.sts # MFX_ERR_MORE_SURFACE
          /\ SameCall(hist.last, hist'.last) => hist.last.sts = MFX_WRN_DEVICE_BUSY]_vars

\* C17 amended: no stage is called again after a failure; VPP and the encoder are
\* not called again after MFX_ERR_MORE_SURFACE and their call is repeated only after
\* MFX_WRN_DEVICE_BUSY; DecodeFrameAsync is also called again after
\* MFX_ERR_MORE_SURFACE, once a free work surface has been acquired for it.
C17_RetryRules ==
    [][(CallStep /\ hist'.last.op = hist.last.op) =>
          /\ ~IsFatal(hist.last.sts)
          /\ hist.last.sts = MFX_ERR_MORE_SURFACE =>
                (hist.last.op = "dec" /\ hist'.last.surf \in PoolDec /\ ~locked1[hist'.last.surf])
          /\ SameCall(hist.last, hist'.last) =>
                \/ hist.last.sts = MFX_WRN_DEVICE_BUSY
                \/ hist.last.op = "dec" /\ hist.last.sts = MFX_ERR_MORE_SURFACE]_vars

\* DecodeFrameAsync is about to be called again after MFX_ERR_MORE_SURFACE.
C17_DecodeWantsSurface ==
    pc = "decode" /\ hist.last.op = "dec" /\ hist.last.sts = MFX_ERR_MORE_SURFACE

\* What a busy answer leaves alone: nothing of the task pool, the oldest task, the
\* frame count, the sink or the loop main is in changes from the busy answer to the
\* next call, and main neither leaves the loop nor returns.
BusyKeepsState ==
    /\ (CallStep /\ hist'.last.sts = MFX_WRN_DEVICE_BUSY) =>
          UNCHANGED <<pTasks, nFirstSyncTask, nFrame, sink, outstanding, stage, accel>>
    /\ (~CallStep /\ hist.last.sts = MFX_WRN_DEVICE_BUSY) =>
          /\ UNCHANGED <<pTasks, nFirstSyncTask, nFrame, sink, outstanding, stage, accel>>
          /\ pc' \in {"head", "decode", "vpp", "enc"}

\* C18 as stated: a busy answer changes nothing but the retry, and the call that
\* follows it is the same call: same stage, input, surface and task slot.
C18_BusySameCall ==
    [][/\ BusyKeepsState
       /\ (CallStep /\ hist.last.sts = MFX_WRN_DEVICE_BUSY) =>
             SameCall(hist.last, hist'.last)]_vars

\* C18 amended: the same, except that Stage 2 acquires the decoder's work surface
\* again before it repeats DecodeFrameAsync, so the surface may be another free one.
C18_BusySameCallButDrainSurface ==
    [][/\ BusyKeepsState
       /\ (CallStep /\ hist.last.sts = MFX_WRN_DEVICE_BUSY) =>
             /\ SameCallButDrainSurface(hist.last, hist'.last)
             /\ hist'.last.op = "dec" => ~locked1[hist'.last.surf]]_vars

\* The Stage 2 decode call is about to be repeated with surface 0, which the
\* accelerator has released since the call with surface 1 was answered busy.
C18_DrainSurfaceChanges ==
    /\ pc = "decode" /\ stage = 2
    /\ hist.last.op = "dec" /\ hist.last.sts = MFX_WRN_DEVICE_BUSY /\ hist.last.surf = 1
    /\ ~locked1[0]

\* C19: once RunFrameVPPAsync has returned MFX_ERR_MORE_SURFACE in Stage 1, 2 or 3,
\* no stage is called any more, main stays in that loop's stage until it returns,
\* and what it returns is that error.
C19_VppMoreSurfaceStops ==
    (hist.last.op = "vpp" /\ hist.last.sts = MFX_ERR_MORE_SURFACE) =>
        /\ pc \in {"after", "ret"}
        /\ stage = hist.last.stage
        /\ pc = "after" => sts = MFX_ERR_MORE_SURFACE
        /\ pc = "ret" => ret = MFX_ERR_MORE_SURFACE

\* main has returned MFX_ERR_MORE_SURFACE from the VPP drain with a task outstanding.
C19_StoppedInDrain ==
    /\ pc = "ret" /\ ret = MFX_ERR_MORE_SURFACE /\ stage = 3
    /\ hist.last.op = "vpp" /\ outstanding # {}

\* C20: after RunFrameVPPAsync has returned MFX_ERR_MORE_DATA in Stage 1, main stays
\* in Stage 1 on its way to the next DecodeFrameAsync call, with a free task slot
\* still unclaimed, as long as the bit stream holds input.
C20_VppMoreDataFeedsDecode ==
    (hist.last.op = "vpp" /\ hist.last.stage = 1 /\ hist.last.sts = MFX_ERR_MORE_DATA
        /\ bsData > 0) =>
        /\ stage = 1
        /\ pc \in {"head", "read", "decode"}
        /\ pTasks[hist.last.slot].syncp = NULL
        /\ nClaimed = hist.last.claimed

\* C21: main leaves the Stage 1 loop for Stage 2 only after DecodeFrameAsync asked
\* for more data and the file had none left, and from Stage 2 on the bit stream
\* holds no frame the decoder has not taken.
C21_FeedingEndsOnDecode ==
    /\ (stage = 1 /\ pc = "after" /\ sts = MFX_ERR_MORE_DATA) =>
          (hist.last.op = "dec" /\ hist.last.sts = MFX_ERR_MORE_DATA)
    /\ stage >= 2 => bsData = 0

\* C22: after RunFrameVPPAsync has returned MFX_ERR_MORE_DATA in Stage 2, main stays
\* in the Stage 2 loop on its way to the next DecodeFrameAsync call, and Stage 2 is
\* left for Stage 3 only after DecodeFrameAsync itself returned MFX_ERR_MORE_DATA.
C22_DrainContinuesAfterVpp ==
    /\ (hist.last.op = "vpp" /\ hist.last.stage = 2
            /\ hist.last.sts = MFX_ERR_MORE_DATA) =>
          (stage = 2 /\ pc \in {"head", "decode"})
    /\ (stage = 2 /\ pc = "after" /\ sts = MFX_ERR_MORE_DATA) =>
          (hist.last.op = "dec" /\ hist.last.sts = MFX_ERR_MORE_DATA)

\* C23: when EncodeFrameAsync, given a surface in Stage 1, 2 or 3, returns
\* MFX_ERR_MORE_DATA, the slot it was given has no sync point, nothing is written,
\* recycled or counted, and main goes on with the same loop, its status
\* MFX_ERR_NONE.
C23_EncodeMoreDataGoesOn ==
    [][(CallStep /\ hist'.last.op = "enc" /\ hist'.last.stage \in {1, 2, 3}
            /\ hist'.last.sts = MFX_ERR_MORE_DATA) =>
          /\ pTasks'[hist'.last.slot].syncp = NULL
          /\ UNCHANGED <<sink, nFrame, nFirstSyncTask, outstanding, nClaimed, stage>>
          /\ pc' = "head"
          /\ sts' = MFX_ERR_NONE
          /\ LoopCond(stage', sts')]_vars

\* The encoder has taken a frame of the VPP drain and asked for more.
C23_BufferedInDrain ==
    /\ hist.last.op = "enc" /\ hist.last.stage = 3 /\ hist.last.sts = MFX_ERR_MORE_DATA
    /\ pc = "head" /\ stage = 3 /\ encBuf > 0

\* C24: the stages are gone through in order, one at a time and never backwards, and
\* main ends normally only from Stage 5; the file is read in Stage 1 only, the
\* decoder is called in Stages 1 and 2 only and takes nothing from the bit stream in
\* Stage 2, VPP is called in Stages 1-3 only and the encoder in Stages 1-4 only.
C24_StagesInOrder ==
    [][/\ stage' \in {stage, stage + 1}
       /\ pc' = "done" => stage' = 5
       /\ pc = "read" => stage = 1
       /\ stage >= 2 => UNCHANGED <<srcLeft, bsData>>
       /\ CallStep =>
             /\ hist'.last.stage = stage /\ stage' = stage
             /\ hist'.last.op = "dec" => stage \in {1, 2}
             /\ hist'.last.op = "vpp" => stage \in {1, 2, 3}
             /\ hist'.last.op = "enc" => stage \in {1, 2, 3, 4}]_vars

\* main has ended after the encode drain of Stage 4 returned an output and Stage 5
\* flushed it.
C24_AllStagesDone ==
    /\ pc = "done" /\ stage = 5 /\ Len(sink) = nClaimed
    /\ hist.last.op = "enc" /\ hist.last.stage = 4 /\ hist.last.claimed > 0

\* A step that recycles a task: a sync point is cleared, or the oldest task or the
\* frame count moves.
RecycleStep ==
    \/ \E i \in Slots : pTasks[i].syncp # NULL /\ pTasks'[i].syncp = NULL
    \/ nFirstSyncTask' # nFirstSyncTask
    \/ nFrame' # nFrame

\* C25: a task is recycled only by the step that has written its output to the sink,
\* after SyncOperation on it returned MFX_ERR_NONE; no other step, and no failed
\* wait or write, clears a sync point or moves nFirstSyncTask.
C25_RecycleAfterWaitAndWrite ==
    [][RecycleStep =>
          /\ pc = "write"
          /\ sts = MFX_ERR_NONE
          /\ pTasks[SyncSlot].syncp # NULL
          /\ sink' = Append(sink, pTasks[SyncSlot].bs)
          /\ pTasks' = Recycled(pTasks, SyncSlot)]_vars

\* The j-th slot of the pool counted circularly from the oldest task.
Ring(j) == (nFirstSyncTask + j) % taskPoolSize

\* C26: nFirstSyncTask is a slot of the pool; the slots with a sync point are the
\* first ones counted circularly from it, holding the most recent encode operations
\* in the order they were accepted; and the slot given to the encoder is the one
\* right after them.
C26_CircularRange ==
    LET k == Cardinality(outstanding)
    IN /\ nFirstSyncTask \in Slots
       /\ k <= taskPoolSize
       /\ \A j \in 0 .. (taskPoolSize - 1) :
             pTasks[Ring(j)].syncp = IF j < k THEN nClaimed - k + j + 1 ELSE NULL
       /\ pc = "enc" => (k < taskPoolSize /\ EncodeSlot = Ring(k))

\* The range wraps around: the oldest task is in slot 1 and a newer one in slot 0.
C26_Wrapped ==
    /\ taskPoolSize = 2 /\ nFirstSyncTask = 1
    /\ pTasks[1].syncp # NULL /\ pTasks[0].syncp > pTasks[1].syncp

\* C27: SyncOperation is only called on the oldest task while its sync point is set
\* and its operation outstanding, and EncodeFrameAsync is only given a slot of the
\* pool whose sync point is not set.
C27_WaitSetEncodeFree ==
    /\ pc = "sync" =>
          (pTasks[nFirstSyncTask].syncp # NULL
              /\ pTasks[nFirstSyncTask].syncp \in outstanding)
    /\ pc = "enc" => (EncodeSlot \in Slots /\ pTasks[EncodeSlot].syncp = NULL)

\* Stage 5 is about to wait on the second of two tasks left by the loops.
C27_FlushWaits ==
    /\ pc = "sync" /\ stage = 5 /\ taskPoolSize = 2
    /\ Cardinality(outstanding) = 1 /\ pTasks[nFirstSyncTask].syncp = nClaimed

====
